---- MODULE Spec2Model ----
(***************************************************************************)
(* pg_dump_sample: the dependency-ordered dump engine of dump/dump.go.     *)
(*                                                                         *)
(* The model has two specifications over one set of variables:             *)
(*   IterSpec  a client that builds a ManifestIterator and calls Next      *)
(*             repeatedly (also after an error or end-of-sequence);        *)
(*   Spec      one run of MakeDump: the writer driving the iterator and    *)
(*             the output sink, statement by statement.                    *)
(* The database (the foreign keys and columns of the catalog, failing      *)
(* lookups), the manifest and the sink (an io.Writer that may start to     *)
(* fail) are inputs drawn in the initial states.                           *)
(***************************************************************************)
EXTENDS Integers, Sequences, FiniteSets, TLC

VARIABLES
    manifest,     \* *Manifest: [Vars, Tables], never mutated
    fkeys,        \* catalog: table -> referenced tables, in catalog order
    catalogCols,  \* catalog: table -> column names ordered by attnum
    fault,        \* the external capability that fails in this run, if any
    todo,         \* ManifestIterator.todo: map[string]ManifestItem
    done,         \* ManifestIterator.done: map[string]ManifestItem
    stack,        \* ManifestIterator.stack: []string
    lastRes,      \* what the last Next call returned
    asked,        \* tables getTableDeps was called for during the last Next call
    emitted,      \* items returned by Next so far, in order
    calls,        \* number of Next calls made
    pc,           \* position of the caller (MakeDump's statement, or "iter")
    cur,          \* MakeDump: v, the item being written
    cols,         \* MakeDump: cols
    colsAsked,    \* MakeDump: tables getTableCols was called for, in order
    postIdx,      \* MakeDump: index into v.PostActions
    out,          \* what reached the sink w, one element per write
    writes,       \* number of writes attempted on w
    failed,       \* MakeDump: the first stage that failed, "" while none has
    ret           \* MakeDump's return: "running", "ok", "err" or "fatal"

vars == <<manifest, fkeys, catalogCols, fault, todo, done, stack, lastRes, asked,
          emitted, calls, pc, cur, cols, colsAsked, postIdx, out, writes, failed, ret>>

(***************************************************************************)
(* Bounds of the model.                                                    *)
(***************************************************************************)
\* entries of the manifest handed to an iterator client
MaxManifest == 3
\* foreign-key constraints in the catalog of an iterator client
MaxFK == 2
\* Next calls an iterator client makes
MaxCalls == 5
\* nested m.Next() calls the goroutine stack holds before the runtime aborts
MaxDepth == 14
\* entries of the manifest handed to MakeDump
MaxDumpManifest == 2
\* foreign-key constraints in the catalog MakeDump runs against
MaxDumpFK == 1
\* latest write at which the sink may start to fail
MaxSinkOk == 5

Tables == {"A", "B", "C"}
DumpTables == {"A", "B"}

(***************************************************************************)
(* Output framing, dump.go constants.                                      *)
(***************************************************************************)
BEGIN_DUMP ==
    "\n--\n-- PostgreSQL database dump\n--\n\nBEGIN;\n\nSET statement_timeout = 0;\nSET lock_timeout = 0;\nSET client_encoding = 'UTF8';\nSET standard_conforming_strings = on;\nSET check_function_bodies = false;\nSET client_min_messages = warning;\n\nSET search_path = public, pg_catalog;\n\n"

END_DUMP ==
    "\nCOMMIT;\n\n--\n-- PostgreSQL database dump complete\n--\n"

\* fmt.Sprintf(BEGIN_TABLE_DUMP, table, table, colstr)
BEGIN_TABLE_DUMP(table, colstr) ==
    "\n--\n-- Data for Name: " \o table \o "; Type: TABLE DATA\n--\n\nCOPY "
        \o table \o " (" \o colstr \o ") FROM stdin;\n"

END_TABLE_DUMP == "\\.\n"

\* fmt.Sprintf(SQL_CMD_DUMP, v)
SQL_CMD_DUMP(v) == "\n" \o v \o ";\n"

(***************************************************************************)
(* Manifest items.  A query is a template: a sequence of tokens, a literal *)
(* ("lit"), a variable tag {{s}} ("var") or a section tag {{#s}} that is   *)
(* never closed ("open").  The empty sequence is the empty string.         *)
(***************************************************************************)
ManifestItem(table, query, columns, postActions) ==
    [Table |-> table, Query |-> query, Columns |-> columns, PostActions |-> postActions]

\* ManifestItem{Table: dep}
DefaultItem(dep) == ManifestItem(dep, <<>>, <<>>, <<>>)

Lit(s) == [k |-> "lit", s |-> s]
Tag(s) == [k |-> "var", s |-> s]
Open(s) == [k |-> "open", s |-> s]

\* "SELECT * FROM <t> WHERE {{cond}}"
QueryActive(t) == <<Lit("SELECT * FROM " \o t \o " WHERE "), Tag("cond")>>
\* "SELECT * FROM <t> WHERE {{#cond}}", the section never closed
QueryBroken(t) == <<Lit("SELECT * FROM " \o t \o " WHERE "), Open("cond")>>

\* no value of a ManifestItem: Next's nil
NoItem == [Table |-> ""]

EmptyMap == [x \in {} |-> NoItem]

RECURSIVE SeqsUpTo(_, _)
SeqsUpTo(S, n) ==
    IF n = 0 THEN {<<>>}
    ELSE LET shorter == SeqsUpTo(S, n - 1)
         IN  shorter \cup {Append(s, x) : s \in {t \in shorter : Len(t) = n - 1}, x \in S}

Range(s) == {s[i] : i \in 1..Len(s)}

Count(s, x) == Cardinality({i \in 1..Len(s) : s[i] = x})

TablesOf(items) == [i \in 1..Len(items) |-> items[i].Table]

(***************************************************************************)
(* Schema inspector.                                                       *)
(***************************************************************************)
NoFault == [op |-> "none", table |-> "", at |-> 0]
DepsFault(t) == [op |-> "deps", table |-> t, at |-> 0]
ColsFault(t) == [op |-> "cols", table |-> t, at |-> 0]
CopyFault(t) == [op |-> "copy", table |-> t, at |-> 0]
SinkFault(n) == [op |-> "sink", table |-> "", at |-> n]

\* getTableDeps against the catalog cat: db.Query on pg_constraint, the rows
\* in the order returned
getTableDepsIn(cat, table) ==
    IF fault = DepsFault(table)
    THEN [err |-> TRUE, tables |-> <<>>]
    ELSE [err |-> FALSE, tables |-> cat[table]]

\* getTableDeps against the catalog of the run
getTableDeps(table) == getTableDepsIn(fkeys, table)

\* getTableCols: db.Query on pg_attribute, ORDER BY attnum
getTableCols(table) ==
    IF fault = ColsFault(table)
    THEN [err |-> TRUE, cols |-> <<>>]
    ELSE [err |-> FALSE, cols |-> catalogCols[table]]

(***************************************************************************)
(* ManifestIterator.                                                       *)
(***************************************************************************)
\* mutant: an entry already in the map is kept
PutItem_KeepFirst(map, item) == map @@ (item.Table :> item)

\* m.todo[item.Table] = item
PutItem(map, item) == (item.Table :> item) @@ map

\* delete(map, table)
DeleteKey(map, table) == [t \in (DOMAIN map) \ {table} |-> map[t]]

\* NewManifestIterator: the loop over m.manifest.Tables
RECURSIVE NewTodo(_, _)
NewTodo(items, map) ==
    IF items = <<>> THEN map
    ELSE NewTodo(Tail(items), PutItem(map, Head(items)))

\* mutant: the loop over the manifest starts at its second entry
NewStack_SkipFirst(items) ==
    IF Len(items) = 0 THEN <<>> ELSE TablesOf(Tail(items))

NewStack(items) == TablesOf(items)

\* mutant: the test on done negated (!is_todo && is_done)
NeedsDefault_DoneFlipped(td, dn, dep) == dep \notin DOMAIN td /\ dep \in DOMAIN dn

\* mutant: the test on done left out (!is_todo)
NeedsDefault_TodoOnly(td, dn, dep) == dep \notin DOMAIN td

\* !is_todo && !is_done
NeedsDefault(td, dn, dep) == dep \notin DOMAIN td /\ dep \notin DOMAIN dn

\* mutant: the comparison with the table itself inverted (ok && table == dep)
IsOutstanding_SelfOnly(td, dep, table) == dep \in DOMAIN td /\ table = dep

\* mutant: the comparison with the table itself left out (ok)
IsOutstanding_NoSelfTest(td, dep, table) == dep \in DOMAIN td

\* _, ok := m.todo[dep]; ok && table != dep
IsOutstanding(td, dep, table) == dep \in DOMAIN td /\ table # dep

\* mutant: only the dependencies just given a default entry are collected
RECURSIVE ScanDeps_NewOnly(_, _, _, _, _)
ScanDeps_NewOnly(ds, table, td, dn, acc) ==
    IF ds = <<>> THEN [todo |-> td, todoDeps |-> acc]
    ELSE LET dep == Head(ds)
             fresh == dep \notin DOMAIN td /\ dep \notin DOMAIN dn
             td2 == IF fresh THEN (dep :> [Table |-> dep, Query |-> <<>>, Columns |-> <<>>,
                                            PostActions |-> <<>>]) @@ td
                    ELSE td
             acc2 == IF fresh /\ table # dep THEN Append(acc, dep) ELSE acc
         IN  ScanDeps_NewOnly(Tail(ds), table, td2, dn, acc2)

\* mutant: each outstanding dependency is put in front of those found before
RECURSIVE ScanDeps_Prepend(_, _, _, _, _)
ScanDeps_Prepend(ds, table, td, dn, acc) ==
    IF ds = <<>> THEN [todo |-> td, todoDeps |-> acc]
    ELSE LET dep == Head(ds)
             fresh == dep \notin DOMAIN td /\ dep \notin DOMAIN dn
             td2 == IF fresh THEN (dep :> [Table |-> dep, Query |-> <<>>, Columns |-> <<>>,
                                            PostActions |-> <<>>]) @@ td
                    ELSE td
             acc2 == IF dep \in DOMAIN td2 /\ table # dep THEN <<dep>> \o acc ELSE acc
         IN  ScanDeps_Prepend(Tail(ds), table, td2, dn, acc2)

\* mutant: is_todo as read before the default entry was inserted is tested
RECURSIVE ScanDeps_StaleTodo(_, _, _, _, _)
ScanDeps_StaleTodo(ds, table, td, dn, acc) ==
    IF ds = <<>> THEN [todo |-> td, todoDeps |-> acc]
    ELSE LET dep == Head(ds)
             fresh == dep \notin DOMAIN td /\ dep \notin DOMAIN dn
             td2 == IF fresh THEN (dep :> [Table |-> dep, Query |-> <<>>, Columns |-> <<>>,
                                            PostActions |-> <<>>]) @@ td
                    ELSE td
             acc2 == IF dep \in DOMAIN td /\ table # dep THEN Append(acc, dep) ELSE acc
         IN  ScanDeps_StaleTodo(Tail(ds), table, td2, dn, acc2)

\* the loop over deps: todo with the default entries added, and todoDeps
RECURSIVE ScanDeps(_, _, _, _, _)
ScanDeps(ds, table, td, dn, acc) ==
    IF ds = <<>> THEN [todo |-> td, todoDeps |-> acc]
    ELSE LET dep == Head(ds)
             td2 == IF NeedsDefault(td, dn, dep) THEN PutItem(td, DefaultItem(dep)) ELSE td
             acc2 == IF IsOutstanding(td2, dep, table) THEN Append(acc, dep) ELSE acc
         IN  ScanDeps(Tail(ds), table, td2, dn, acc2)

\* mutant: the table pushed back in front of its dependencies
Repush_TableFirst(todoDeps, table, rest) == <<table>> \o todoDeps \o rest

\* append(todoDeps, append([]string{table}, m.stack...)...)
Repush(todoDeps, table, rest) == todoDeps \o <<table>> \o rest

\* mutant: a table whose lookup failed is put aside as done
DepsFailed_MarkDone(td, dn, rest, ask) ==
    [kind |-> "err", item |-> NoItem, todo |-> td,
     done |-> PutItem(dn, td[ask[Len(ask)]]), stack |-> rest, asked |-> ask]

\* return nil, err
DepsFailed(td, dn, rest, ask) ==
    [kind |-> "err", item |-> NoItem, todo |-> td, done |-> dn, stack |-> rest, asked |-> ask]

\* mutant: the delete from todo left out
MoveToDone_NoDelete(table, td, dn, rest, ask) ==
    [kind |-> "item", item |-> td[table], todo |-> td,
     done |-> PutItem(dn, td[table]), stack |-> rest, asked |-> ask]

\* result := m.todo[table]; m.done[table] = m.todo[table]; delete(m.todo, table)
MoveToDone(table, td, dn, rest, ask) ==
    [kind |-> "item", item |-> td[table], todo |-> DeleteKey(td, table),
     done |-> PutItem(dn, td[table]), stack |-> rest, asked |-> ask]

\* Next against the catalog cat, with the goroutine stack limited to MaxDepth
\* nested calls; beyond it the runtime ends the process ("fatal error: stack
\* overflow")
RECURSIVE NextRunOn(_, _, _, _, _, _)
NextRunOn(cat, td, dn, stk, ask, depth) ==
    IF depth > MaxDepth
    THEN [kind |-> "overflow", item |-> NoItem, todo |-> td, done |-> dn,
          stack |-> stk, asked |-> ask]
    ELSE IF Len(stk) = 0
    THEN [kind |-> "nil", item |-> NoItem, todo |-> td, done |-> dn,
          stack |-> stk, asked |-> ask]
    ELSE LET table == Head(stk)
             rest == Tail(stk)
         IN  IF table \notin DOMAIN td
             THEN NextRunOn(cat, td, dn, rest, ask, depth + 1)
             ELSE LET got == getTableDepsIn(cat, table)
                      ask2 == Append(ask, table)
                  IN  IF got.err
                      THEN DepsFailed(td, dn, rest, ask2)
                      ELSE LET scan == ScanDeps(got.tables, table, td, dn, <<>>)
                           IN  IF Len(scan.todoDeps) > 0
                               THEN NextRunOn(cat, scan.todo, dn,
                                              Repush(scan.todoDeps, table, rest),
                                              ask2, depth + 1)
                               ELSE MoveToDone(table, scan.todo, dn, rest, ask2)

\* Next against the catalog of the run
NextRun(td, dn, stk, ask, depth) == NextRunOn(fkeys, td, dn, stk, ask, depth)

(***************************************************************************)
(* Inputs.                                                                 *)
(***************************************************************************)
ManifestVars == [cond |-> "active"]

BareItem(t) == DefaultItem(t)
FullItem(t) == ManifestItem(t, QueryActive(t), <<"id", "name">>, <<"ANALYZE " \o t, "DELETE FROM " \o t \o " WHERE NOT {{cond}}">>)
BrokenItem(t) == ManifestItem(t, QueryBroken(t), <<>>, <<"ANALYZE " \o t>>)
ColsItem(t) == ManifestItem(t, <<>>, <<"id", "name">>, <<>>)

\* the manifests of an iterator client: any sequence of at most n table
\* names, the entries alternately declared with a query, columns and
\* post-actions and by the table's name alone
IterManifests(n) ==
    {[i \in 1..Len(ts) |-> IF i % 2 = 1 THEN FullItem(ts[i]) ELSE BareItem(ts[i])] :
        ts \in SeqsUpTo(Tables, n)}

\* the catalogs with at most n foreign keys among the tables T
RECURSIVE Catalogs(_, _)
Catalogs(T, n) ==
    IF n = 0 THEN {[t \in Tables |-> <<>>]}
    ELSE LET fewer == Catalogs(T, n - 1)
         IN  fewer \cup {[c EXCEPT ![a] = Append(@, b)] : c \in fewer, a \in T, b \in T}

ColumnOrders == {<<"id", "name">>, <<"name", "id">>}

NoRes == [kind |-> "none", item |-> NoItem]

IterInit ==
    /\ \E items \in IterManifests(MaxManifest) :
          /\ manifest = [Vars |-> ManifestVars, Tables |-> items]
          /\ todo = NewTodo(items, EmptyMap)
          /\ stack = NewStack(items)
    /\ fkeys \in Catalogs(Tables, MaxFK)
    /\ catalogCols = [t \in Tables |-> <<"id", "name">>]
    /\ fault \in {NoFault} \cup {DepsFault(t) : t \in Tables}
    /\ done = EmptyMap
    /\ lastRes = NoRes
    /\ asked = <<>>
    /\ emitted = <<>>
    /\ calls = 0
    /\ pc = "iter"
    /\ cur = NoItem
    /\ cols = <<>>
    /\ colsAsked = <<>>
    /\ postIdx = 0
    /\ out = <<>>
    /\ writes = 0
    /\ failed = ""
    /\ ret = "running"

\* the iterator's fields and the record of the call, after one Next call
CallNext ==
    LET r == NextRun(todo, done, stack, <<>>, 1)
    IN  /\ todo' = r.todo
        /\ done' = r.done
        /\ stack' = r.stack
        /\ asked' = r.asked
        /\ lastRes' = [kind |-> r.kind, item |-> r.item]
        /\ emitted' = IF r.kind = "item" THEN Append(emitted, r.item) ELSE emitted
        /\ calls' = calls + 1

\* a client calls iterator.Next()
IterNext ==
    /\ pc = "iter"
    /\ calls < MaxCalls
    /\ lastRes.kind # "overflow"
    /\ CallNext
    /\ UNCHANGED <<manifest, fkeys, catalogCols, fault, colsAsked, pc, cur, cols, postIdx,
                   out, writes, failed, ret>>

IterSpec == IterInit /\ [][IterNext]_vars

(***************************************************************************)
(* MakeDump.                                                               *)
(***************************************************************************)
\* the sink takes the next write
SinkOk == ~(fault.op = "sink" /\ writes >= fault.at)

Event(kind, table, columns, text) ==
    [kind |-> kind, table |-> table, cols |-> columns, text |-> text]

\* fmt.Fprintf(w, ...): the error it returns is dropped by every caller
Fprintf(ev) == IF SinkOk THEN Append(out, ev) ELSE out

\* strconv.Quote, of a name of letters
Quote(v) == "\"" \o v \o "\""

QuoteAll(columns) == [i \in 1..Len(columns) |-> Quote(columns[i])]

\* strings.Join(quoted, ", ")
RECURSIVE Join(_, _)
Join(strs, sep) ==
    IF Len(strs) = 0 THEN ""
    ELSE IF Len(strs) = 1 THEN strs[1]
    ELSE strs[1] \o sep \o Join(Tail(strs), sep)

\* beginTable: the header written for table and columns
TableHeader(table, columns) ==
    Event("BEGIN_TABLE", table, columns, BEGIN_TABLE_DUMP(table, Join(QuoteAll(columns), ", ")))

\* mustache.Render(v.Query, manifest.Vars): a missing variable renders empty,
\* an unclosed section is a parse error
RECURSIVE RenderTokens(_, _)
RenderTokens(query, context) ==
    IF Len(query) = 0 THEN ""
    ELSE LET tok == Head(query)
             piece == IF tok.k = "lit" THEN tok.s
                      ELSE IF tok.s \in DOMAIN context THEN context[tok.s] ELSE ""
         IN  piece \o RenderTokens(Tail(query), context)

Render(query, context) ==
    IF \E i \in 1..Len(query) : query[i].k = "open"
    THEN [err |-> TRUE, text |-> ""]
    ELSE [err |-> FALSE, text |-> RenderTokens(query, context)]

\* len(cols) == 0: the catalog is asked for the columns
AsksCatalog(v) == Len(v.Columns) = 0

\* mutant: the catalog's columns are used whatever the entry declares
ResolveCols_Catalog(v) == getTableCols(v.Table)

\* cols := v.Columns; if len(cols) == 0 { cols, err = getTableCols(db, v.Table) }
ResolveCols(v) ==
    IF AsksCatalog(v) THEN getTableCols(v.Table)
    ELSE [err |-> FALSE, cols |-> v.Columns]

\* the relation dumpTable is called with: the table, or "(" query ")"
CopySource(v) ==
    IF v.Query = <<>> THEN [err |-> FALSE, text |-> v.Table]
    ELSE LET q == Render(v.Query, manifest.Vars)
         IN  [err |-> q.err, text |-> "(" \o q.text \o ")"]

\* fmt.Sprintf(`COPY %s TO STDOUT`, table)
CopySql(rel) == "COPY " \o rel \o " TO STDOUT"

\* columns of the rows COPY exports: every query of the model is SELECT * on
\* the entry's own table, so they are the table's columns in catalog order
CopyCols(v) == catalogCols[v.Table]

DumpItems ==
    {BareItem(t) : t \in DumpTables} \cup {FullItem(t) : t \in DumpTables}
        \cup {BrokenItem(t) : t \in DumpTables} \cup {ColsItem(t) : t \in DumpTables}

DumpFaults ==
    {NoFault} \cup {DepsFault(t) : t \in DumpTables} \cup {ColsFault(t) : t \in DumpTables}
        \cup {CopyFault(t) : t \in DumpTables} \cup {SinkFault(n) : n \in 0..MaxSinkOk}

Init ==
    /\ \E items \in SeqsUpTo(DumpItems, MaxDumpManifest) :
          manifest = [Vars |-> ManifestVars, Tables |-> items]
    /\ fkeys \in Catalogs(DumpTables, MaxDumpFK)
    /\ \E order \in ColumnOrders : catalogCols = [t \in Tables |-> order]
    /\ fault \in DumpFaults
    /\ todo = EmptyMap
    /\ done = EmptyMap
    /\ stack = <<>>
    /\ lastRes = NoRes
    /\ asked = <<>>
    /\ emitted = <<>>
    /\ calls = 0
    /\ pc = "beginDump"
    /\ cur = NoItem
    /\ cols = <<>>
    /\ colsAsked = <<>>
    /\ postIdx = 0
    /\ out = <<>>
    /\ writes = 0
    /\ failed = ""
    /\ ret = "running"

\* a stage has failed: the first one is remembered
Fail(stage) == IF failed = "" THEN stage ELSE failed

\* a framing write: the event reaches the sink or is lost, MakeDump goes on
Write(ev, stage) ==
    /\ out' = Fprintf(ev)
    /\ writes' = writes + 1
    /\ failed' = IF SinkOk THEN failed ELSE Fail(stage)

\* return err
ReturnErr(stage) ==
    /\ pc' = "returned"
    /\ ret' = "err"
    /\ failed' = Fail(stage)

\* beginDump(w); iterator := NewManifestIterator(db, manifest)
BeginDump ==
    /\ pc = "beginDump"
    /\ Write(Event("BEGIN_DUMP", "", <<>>, BEGIN_DUMP), "beginDump")
    /\ todo' = NewTodo(manifest.Tables, EmptyMap)
    /\ stack' = NewStack(manifest.Tables)
    /\ pc' = "next"
    /\ UNCHANGED <<manifest, fkeys, catalogCols, fault, colsAsked, done, lastRes, asked, emitted,
                   calls, cur, cols, postIdx, ret>>

\* v, err := iterator.Next(); if err != nil { return err }; if v == nil { break }
LoopNext ==
    /\ pc = "next"
    /\ CallNext
    /\ LET r == lastRes'
       IN  /\ pc' = CASE r.kind = "item" -> "cols"
                      [] r.kind = "nil" -> "endDump"
                      [] OTHER -> "returned"
           /\ ret' = CASE r.kind = "err" -> "err"
                       [] r.kind = "overflow" -> "fatal"
                       [] OTHER -> ret
           /\ failed' = IF r.kind \in {"err", "overflow"} THEN Fail("next") ELSE failed
           /\ cur' = IF r.kind = "item" THEN r.item ELSE cur
    /\ UNCHANGED <<manifest, fkeys, catalogCols, fault, colsAsked, cols, postIdx, out, writes>>

\* cols := v.Columns, or getTableCols(db, v.Table)
LoopCols ==
    /\ pc = "cols"
    /\ LET c == ResolveCols(cur)
       IN  IF c.err
           THEN ReturnErr("cols") /\ UNCHANGED cols
           ELSE /\ cols' = c.cols
                /\ pc' = "beginTable"
                /\ UNCHANGED <<failed, ret>>
    /\ colsAsked' = IF AsksCatalog(cur) THEN Append(colsAsked, cur.Table) ELSE colsAsked
    /\ UNCHANGED <<manifest, fkeys, catalogCols, fault, todo, done, stack, lastRes,
                   asked, emitted, calls, cur, postIdx, out, writes>>

\* beginTable(w, v.Table, cols)
LoopBeginTable ==
    /\ pc = "beginTable"
    /\ Write(TableHeader(cur.Table, cols), "beginTable")
    /\ pc' = "dump"
    /\ UNCHANGED <<manifest, fkeys, catalogCols, fault, colsAsked, todo, done, stack, lastRes,
                   asked, emitted, calls, cur, cols, postIdx, ret>>

\* mustache.Render fails: return err
LoopRenderFails ==
    /\ pc = "dump"
    /\ CopySource(cur).err
    /\ ReturnErr("render")
    /\ UNCHANGED <<manifest, fkeys, catalogCols, fault, colsAsked, todo, done, stack, lastRes,
                   asked, emitted, calls, cur, cols, postIdx, out, writes>>

\* dumpTable: db.CopyTo fails (the query fails, or a row cannot be written to w)
LoopCopyFails ==
    /\ pc = "dump"
    /\ ~CopySource(cur).err
    /\ fault = CopyFault(cur.Table) \/ ~SinkOk
    /\ ReturnErr("copy")
    /\ writes' = IF fault = CopyFault(cur.Table) THEN writes ELSE writes + 1
    /\ UNCHANGED <<manifest, fkeys, catalogCols, fault, colsAsked, todo, done, stack, lastRes,
                   asked, emitted, calls, cur, cols, postIdx, out>>

\* dumpTable: db.CopyTo streams the rows to w
LoopCopyRows ==
    /\ pc = "dump"
    /\ ~CopySource(cur).err
    /\ fault # CopyFault(cur.Table)
    /\ SinkOk
    /\ Write(Event("ROWS", cur.Table, CopyCols(cur), CopySql(CopySource(cur).text)), "copy")
    /\ pc' = "endTable"
    /\ UNCHANGED <<manifest, fkeys, catalogCols, fault, colsAsked, todo, done, stack, lastRes,
                   asked, emitted, calls, cur, cols, postIdx, ret>>

\* dumpTable: the relation has no rows, db.CopyTo writes nothing to w
LoopCopyEmpty ==
    /\ pc = "dump"
    /\ ~CopySource(cur).err
    /\ fault # CopyFault(cur.Table)
    /\ ~SinkOk
    /\ pc' = "endTable"
    /\ UNCHANGED <<manifest, fkeys, catalogCols, fault, colsAsked, todo, done, stack, lastRes,
                   asked, emitted, calls, cur, cols, postIdx, out, writes, failed, ret>>

\* mutant: the range over v.PostActions starts at its second element
LoopEndTable_SkipFirst ==
    /\ pc = "endTable"
    /\ Write(Event("END_TABLE", cur.Table, <<>>, END_TABLE_DUMP), "endTable")
    /\ pc' = "post"
    /\ postIdx' = 2
    /\ UNCHANGED <<manifest, fkeys, catalogCols, fault, colsAsked, todo, done, stack, lastRes,
                   asked, emitted, calls, cur, cols, ret>>

\* endTable(w)
LoopEndTable ==
    /\ pc = "endTable"
    /\ Write(Event("END_TABLE", cur.Table, <<>>, END_TABLE_DUMP), "endTable")
    /\ pc' = "post"
    /\ postIdx' = 1
    /\ UNCHANGED <<manifest, fkeys, catalogCols, fault, colsAsked, todo, done, stack, lastRes,
                   asked, emitted, calls, cur, cols, ret>>

\* for _, sql := range v.PostActions { dumpSqlCmd(w, sql) }
LoopPostAction ==
    /\ pc = "post"
    /\ postIdx <= Len(cur.PostActions)
    /\ Write(Event("SQL_CMD", cur.Table, <<>>, SQL_CMD_DUMP(cur.PostActions[postIdx])), "post")
    /\ postIdx' = postIdx + 1
    /\ UNCHANGED <<manifest, fkeys, catalogCols, fault, colsAsked, todo, done, stack, lastRes,
                   asked, emitted, calls, pc, cur, cols, ret>>

\* the range over v.PostActions is exhausted: back to the head of the loop
LoopPostDone ==
    /\ pc = "post"
    /\ postIdx > Len(cur.PostActions)
    /\ pc' = "next"
    /\ UNCHANGED <<manifest, fkeys, catalogCols, fault, colsAsked, todo, done, stack, lastRes,
                   asked, emitted, calls, cur, cols, postIdx, out, writes, failed, ret>>

\* endDump(w); return nil
EndDump ==
    /\ pc = "endDump"
    /\ Write(Event("END_DUMP", "", <<>>, END_DUMP), "endDump")
    /\ pc' = "returned"
    /\ ret' = "ok"
    /\ UNCHANGED <<manifest, fkeys, catalogCols, fault, colsAsked, todo, done, stack, lastRes,
                   asked, emitted, calls, cur, cols, postIdx>>

Next ==
    \/ BeginDump
    \/ LoopNext
    \/ LoopCols
    \/ LoopBeginTable
    \/ LoopRenderFails
    \/ LoopCopyFails
    \/ LoopCopyRows
    \/ LoopCopyEmpty
    \/ LoopEndTable
    \/ LoopPostAction
    \/ LoopPostDone
    \/ EndDump

Spec == Init /\ [][Next]_vars

(***************************************************************************)
(* Properties.                                                             *)
(***************************************************************************)
EmittedTables == TablesOf(emitted)
ManifestTables == Range(TablesOf(manifest.Tables))
DepsOf(table) == Range(fkeys[table]) \ {table}

\* C1: the items returned by Next are in topological order: when a table is
\* returned, each table it references by foreign key (other than itself) was
\* returned strictly before it, and is not returned at or after it.
C1_TopologicalOrder ==
    \A i \in 1..Len(emitted) :
        \A dep \in DepsOf(emitted[i].Table) :
            /\ \E j \in 1..(i - 1) : emitted[j].Table = dep
            /\ \A j \in i..Len(emitted) : emitted[j].Table # dep

\* a complete run returned three tables, in an order that is not the
\* manifest's, one of them referencing another
C1_Witness ==
    /\ lastRes.kind = "nil"
    /\ Len(emitted) = 3
    /\ EmittedTables # TablesOf(manifest.Tables)
    /\ \E i \in 1..3 : DepsOf(emitted[i].Table) # {}

\* C2: a table referenced by a returned table and absent from the manifest is
\* returned exactly once, as the default item ManifestItem{Table: dep} with
\* empty query, columns and post-actions.
C2_SyntheticDefault ==
    \A i \in 1..Len(emitted) :
        \A dep \in Range(fkeys[emitted[i].Table]) \ ManifestTables :
            /\ Count(EmittedTables, dep) = 1
            /\ \A j \in 1..Len(emitted) :
                  emitted[j].Table = dep =>
                      /\ emitted[j] = DefaultItem(dep)
                      /\ emitted[j].Query = <<>>
                      /\ emitted[j].Columns = <<>>
                      /\ emitted[j].PostActions = <<>>

\* a declared table was returned after a table it references that the
\* manifest does not declare
C2_Witness ==
    \E i \in 1..Len(emitted) :
        /\ emitted[i].Table \in ManifestTables
        /\ DepsOf(emitted[i].Table) \ ManifestTables # {}

\* C3: no table name is returned more than once.
C3_NoDuplicates ==
    \A i, j \in 1..Len(emitted) : i # j => emitted[i].Table # emitted[j].Table

\* the run is complete; the manifest lists a table twice and declares a
\* table after one that references it
C3_Witness ==
    /\ lastRes.kind = "nil"
    /\ \E i, j \in 1..Len(manifest.Tables) :
          /\ i < j
          /\ manifest.Tables[i].Table = manifest.Tables[j].Table
    /\ \E i, j \in 1..Len(manifest.Tables) :
          /\ i < j
          /\ manifest.Tables[j].Table \in DepsOf(manifest.Tables[i].Table)
    /\ Len(emitted) >= 2

MutualCycle(a, b) ==
    /\ a # b
    /\ b \in Range(fkeys[a])
    /\ a \in Range(fkeys[b])

\* C4: when two tables reference each other and a Next call has looked up
\* both while both wait in todo, the call returns a failure; the nesting of
\* Next never exhausts the stack.
C4_CycleDetected ==
    /\ lastRes.kind # "overflow"
    /\ \A a, b \in Tables :
          (/\ MutualCycle(a, b)
           /\ {a, b} \subseteq Range(asked)
           /\ {a, b} \subseteq DOMAIN todo) => lastRes.kind = "err"

\* C7: when the dependency lookup fails, Next returns the failure and no item,
\* the failing table is not in done and stays in todo, and it was looked up
\* once in that call, as the call's last lookup.
C7_LookupFailure ==
    lastRes.kind = "err" =>
        /\ fault.op = "deps"
        /\ lastRes.item = NoItem
        /\ fault.table \notin DOMAIN done
        /\ fault.table \in DOMAIN todo
        /\ fault.table \notin Range(EmittedTables)
        /\ Count(asked, fault.table) = 1
        /\ asked[Len(asked)] = fault.table

\* a Next call failed on a table it reached through another table's foreign key
C7_Witness ==
    /\ lastRes.kind = "err"
    /\ Len(asked) >= 2
    /\ fault.table \notin ManifestTables

\* the n-th Next call returned s[n], and the calls after the last element of
\* s signalled end-of-sequence
ReturnsInOrder(s) ==
    /\ calls <= Len(s) =>
          /\ EmittedTables = SubSeq(s, 1, calls)
          /\ calls > 0 => (lastRes.kind = "item" /\ lastRes.item.Table = s[calls])
    /\ calls > Len(s) =>
          /\ EmittedTables = s
          /\ lastRes.kind = "nil"

ScenarioAB ==
    /\ TablesOf(manifest.Tables) \in {<<"A", "B">>, <<"B", "A">>}
    /\ fkeys["A"] = <<>>
    /\ Range(fkeys["B"]) = {"A"}
    /\ fault = NoFault

\* C9: with exactly A and B declared, in either order, A without foreign keys
\* and B referencing A, Next returns A, then B, then end-of-sequence.
C9_TwoTables == ScenarioAB => ReturnsInOrder(<<"A", "B">>)

\* the manifest declares B before A and the third call signalled the end
C9_Witness ==
    /\ ScenarioAB
    /\ TablesOf(manifest.Tables) = <<"B", "A">>
    /\ calls = 3
    /\ lastRes.kind = "nil"

ScenarioCBA ==
    /\ TablesOf(manifest.Tables) = <<"C", "B", "A">>
    /\ Range(fkeys["C"]) = {"B"}
    /\ Range(fkeys["B"]) = {"A"}
    /\ fkeys["A"] = <<>>
    /\ fault = NoFault

\* C10: with C, B, A declared in that order, C referencing B and B referencing
\* A, Next returns A, B, C and then end-of-sequence.
C10_Chain == ScenarioCBA => ReturnsInOrder(<<"A", "B", "C">>)

\* the chain was returned and the fourth call signalled the end
C10_Witness ==
    /\ ScenarioCBA
    /\ calls = 4
    /\ lastRes.kind = "nil"
    /\ EmittedTables = <<"A", "B", "C">>

BlockKinds == {"BEGIN_TABLE", "ROWS", "END_TABLE", "SQL_CMD"}

\* C5: when MakeDump returns success, the output starts with BEGIN_DUMP, ends
\* with END_DUMP and holds only table data blocks between them; for an empty
\* table list it is exactly BEGIN_DUMP followed by END_DUMP.
C5_Bracketed ==
    ret = "ok" =>
        /\ Len(out) >= 2
        /\ out[1].text = BEGIN_DUMP
        /\ out[Len(out)].text = END_DUMP
        /\ \A i \in 2..(Len(out) - 1) : out[i].kind \in BlockKinds
        /\ manifest.Tables = <<>> => Len(out) = 2

\* C6: once a stage of MakeDump has failed, MakeDump has returned, and what it
\* returned is the failure.
C6_FirstFailureAborts ==
    failed # "" => (pc = "returned" /\ ret # "ok")

\* the item Next returned for a table
EmittedItem(table) ==
    emitted[CHOOSE i \in 1..Len(emitted) : emitted[i].Table = table]

HeaderCols(v) == IF v.Columns # <<>> THEN v.Columns ELSE catalogCols[v.Table]

\* C8: every data-block header names the entry's own columns in declared order
\* when the entry declares any, else the catalog's columns in catalog order;
\* the catalog is asked for columns only for entries that declare none.
C8_HeaderColumns ==
    /\ \A i \in 1..Len(out) :
          out[i].kind = "BEGIN_TABLE" =>
              /\ out[i].table \in Range(EmittedTables)
              /\ out[i].cols = HeaderCols(EmittedItem(out[i].table))
              /\ out[i].text = BEGIN_TABLE_DUMP(out[i].table,
                     Join(QuoteAll(HeaderCols(EmittedItem(out[i].table))), ", "))
    /\ \A k \in 1..Len(colsAsked) : EmittedItem(colsAsked[k]).Columns = <<>>
    /\ pc \in {"dump", "endTable", "post"} => cols = HeaderCols(cur)

\* in one run a header was written from declared columns whose order is not
\* the catalog's, and another from the catalog's columns
C8_Witness ==
    \E i, j \in 1..Len(out) :
        /\ out[i].kind = "BEGIN_TABLE"
        /\ out[i].cols = <<"id", "name">>
        /\ catalogCols[out[i].table] = <<"name", "id">>
        /\ out[i].text = BEGIN_TABLE_DUMP(out[i].table, "\"id\", \"name\"")
        /\ out[j].kind = "BEGIN_TABLE"
        /\ EmittedItem(out[j].table).Columns = <<>>
        /\ out[j].cols = <<"name", "id">>

\* the tables reachable from the tables S along foreign keys, S included
RECURSIVE Closure(_)
Closure(S) ==
    LET more == S \cup UNION {Range(fkeys[t]) : t \in S}
    IN  IF more = S THEN S ELSE Closure(more)

\* no table reaches itself along foreign keys to other tables
Acyclic == \A t \in Tables : t \notin Closure(DepsOf(t))

\* C11: on an acyclic catalog without lookup failures, when Next signals
\* end-of-sequence the tables returned are exactly the manifest's tables and
\* the tables they reference, directly or not, and todo is empty.
C11_ClosureEmitted ==
    (fault = NoFault /\ lastRes.kind = "nil" /\ Acyclic) =>
        /\ Range(EmittedTables) = Closure(ManifestTables)
        /\ DOMAIN todo = {}

\* the run ended having returned a table the manifest does not declare and
\* that only another undeclared table references
C11_Witness ==
    /\ Acyclic
    /\ fault = NoFault
    /\ lastRes.kind = "nil"
    /\ \E t \in Range(EmittedTables) \ ManifestTables :
          \A m \in ManifestTables : t \notin Range(fkeys[m])

\* C12: no table is in both todo and done; done holds exactly the items Next
\* has returned (a table enters done in the call that returns it, and no
\* other way), and a returned table is not in todo in any later state.
C12_TodoDoneDisjoint ==
    /\ DOMAIN todo \cap DOMAIN done = {}
    /\ DOMAIN done = Range(EmittedTables)
    /\ \A i \in 1..Len(emitted) :
          /\ done[emitted[i].Table] = emitted[i]
          /\ emitted[i].Table \notin DOMAIN todo
    /\ lastRes.kind = "item" =>
          /\ emitted[Len(emitted)] = lastRes.item
          /\ lastRes.item.Table \in DOMAIN done
          /\ lastRes.item.Table \notin DOMAIN todo

\* a table was returned whose dependency had been returned in an earlier
\* call as the dependency of another table
C12_Witness ==
    \E i, j, k \in 1..Len(emitted) :
        /\ i < j
        /\ j < k
        /\ emitted[i].Table \in DepsOf(emitted[j].Table)
        /\ emitted[i].Table \in DepsOf(emitted[k].Table)
        /\ emitted[i].Table \notin ManifestTables

\* depth-first post-order of the foreign-key graph: the roots ts in order, a
\* table's dependencies in catalog order before the table, a table already
\* listed skipped
RECURSIVE Visit(_, _)
RECURSIVE VisitAll(_, _)
Visit(t, seen) ==
    IF t \in Range(seen) THEN seen
    ELSE Append(VisitAll(SelectSeq(fkeys[t], LAMBDA d : d # t), seen), t)

VisitAll(ts, seen) ==
    IF ts = <<>> THEN seen ELSE VisitAll(Tail(ts), Visit(Head(ts), seen))

PostOrder == VisitAll(TablesOf(manifest.Tables), <<>>)

\* C13: on an acyclic catalog without lookup failures the tables returned so
\* far are the first tables of the depth-first post-order that takes the
\* roots in manifest order and dependencies in catalog order, and at
\* end-of-sequence they are the whole of it.
C13_PostOrder ==
    (fault = NoFault /\ Acyclic) =>
        LET order == PostOrder
        IN  /\ Len(emitted) <= Len(order)
            /\ EmittedTables = SubSeq(order, 1, Len(emitted))
            /\ lastRes.kind = "nil" => EmittedTables = order

\* a table's two outstanding dependencies were returned in catalog order, then
\* the table; the catalog order is not the alphabetical one
C13_Witness ==
    /\ lastRes.kind = "nil"
    /\ fault = NoFault
    /\ \E t, x, y \in Tables :
          /\ Cardinality({t, x, y}) = 3
          /\ fkeys[t] = <<x, y>>
          /\ EmittedTables = <<x, y, t>>
          /\ x = "C"

\* the last entry of the manifest for a table
LastEntry(table) ==
    manifest.Tables[CHOOSE i \in 1..Len(manifest.Tables) :
        /\ manifest.Tables[i].Table = table
        /\ \A j \in (i + 1)..Len(manifest.Tables) : manifest.Tables[j].Table # table]

\* C14: the item returned for a table the manifest declares is the last
\* manifest entry of that name, whatever entries precede it; the table is
\* returned at most once, exactly once by the end of a run on an acyclic
\* catalog, and duplicate entries alone make no call fail.
C14_LastWins ==
    /\ \A k \in 1..Len(emitted) :
          /\ emitted[k].Table \in ManifestTables => emitted[k] = LastEntry(emitted[k].Table)
          /\ Count(EmittedTables, emitted[k].Table) = 1
    /\ fault = NoFault => lastRes.kind # "err"
    /\ (fault = NoFault /\ lastRes.kind = "nil" /\ Acyclic) =>
          \A t \in ManifestTables : Count(EmittedTables, t) = 1

\* the run ended; the manifest declares a table by two entries that differ,
\* and the item returned for it is not the first of them
C14_Witness ==
    /\ lastRes.kind = "nil"
    /\ \E i, j \in 1..Len(manifest.Tables) :
          /\ i < j
          /\ manifest.Tables[i].Table = manifest.Tables[j].Table
          /\ manifest.Tables[i] # manifest.Tables[j]
          /\ manifest.Tables[j] \in Range(emitted)
          /\ manifest.Tables[i] \notin Range(emitted)

\* s without the repetitions of its elements
RECURSIVE Dedup(_)
Dedup(s) ==
    IF s = <<>> THEN <<>>
    ELSE LET front == Dedup(SubSeq(s, 1, Len(s) - 1))
             x == s[Len(s)]
         IN  IF x \in Range(front) THEN front ELSE Append(front, x)

DedupCatalog == [t \in Tables |-> Dedup(fkeys[t])]

\* what n successive Next calls return on an iterator in the given state
\* against the catalog cat; no call follows one that overflowed
RECURSIVE DrainOn(_, _, _, _, _)
DrainOn(cat, td, dn, stk, n) ==
    IF n = 0 THEN <<>>
    ELSE LET r == NextRunOn(cat, td, dn, stk, <<>>, 1)
             res == [kind |-> r.kind, item |-> r.item]
         IN  IF r.kind = "overflow" THEN <<res>>
             ELSE <<res>> \o DrainOn(cat, r.todo, r.done, r.stack, n - 1)

\* the results of the calls made so far, had each dependency list been
\* deduplicated
DedupRun ==
    DrainOn(DedupCatalog, NewTodo(manifest.Tables, EmptyMap), EmptyMap,
            NewStack(manifest.Tables), calls)

ItemsOf(results) ==
    LET got == SelectSeq(results, LAMBDA r : r.kind = "item")
    IN  [i \in 1..Len(got) |-> got[i].item]

\* C15: when a dependency list names a table more than once, the items
\* returned, and the outcome of each call, are those of the same calls
\* against the catalog with every dependency list deduplicated, and the
\* table named more than once is returned at most once.  When a lookup fails
\* and the client calls on, the repeated stack entry can cost a call more:
\* the items returned are then the first items of the deduplicated run.
C15_DuplicateEdges ==
    (pc = "iter" /\ fkeys # DedupCatalog) =>
        LET run == DedupRun
            items == ItemsOf(run)
        IN  /\ Len(run) = calls
            /\ fault = NoFault =>
                  /\ emitted = items
                  /\ calls > 0 => lastRes = run[calls]
            /\ Len(emitted) <= Len(items)
            /\ emitted = SubSeq(items, 1, Len(emitted))
            /\ \A t, d \in Tables :
                  Count(fkeys[t], d) > 1 => Count(EmittedTables, d) <= 1

\* a run without failures ended in which a table with two foreign keys to
\* one other table was returned after that table
C15_Witness ==
    /\ lastRes.kind = "nil"
    /\ fault = NoFault
    /\ \E i, j \in 1..Len(emitted) :
          /\ i < j
          /\ emitted[i].Table # emitted[j].Table
          /\ Count(fkeys[emitted[j].Table], emitted[i].Table) = 2

SelfReferencing(t) == t \in Range(fkeys[t])

\* C16: a table with a foreign key to itself is returned by the call that
\* finds its other dependencies done, after a single lookup in that call (it
\* is not pushed back and looked up again), and at most once; on a catalog
\* whose only cycles are self-references no call exhausts the stack.
C16_SelfReference ==
    /\ (lastRes.kind = "item" /\ SelfReferencing(lastRes.item.Table)) =>
          /\ Count(asked, lastRes.item.Table) = 1
          /\ asked[Len(asked)] = lastRes.item.Table
          /\ DepsOf(lastRes.item.Table) \subseteq DOMAIN done
    /\ \A t \in Tables : SelfReferencing(t) => Count(EmittedTables, t) <= 1
    /\ lastRes.kind = "overflow" => ~Acyclic
    /\ (fault = NoFault /\ lastRes.kind = "nil" /\ Acyclic) =>
          \A t \in Closure(ManifestTables) : SelfReferencing(t) => Count(EmittedTables, t) = 1

\* a table with a foreign key to itself and one to another table was
\* returned, in the call after the one that returned the other table
C16_Witness ==
    /\ lastRes.kind = "item"
    /\ SelfReferencing(lastRes.item.Table)
    /\ DepsOf(lastRes.item.Table) # {}
    /\ asked = <<lastRes.item.Table>>
    /\ Len(emitted) >= 2

\* C18: on an acyclic catalog without lookup failures every Next call returns
\* (none exhausts the stack): the first calls return one table each, as many
\* as the manifest's tables and the tables they reference, and every call
\* after them signals end-of-sequence; a call signals end-of-sequence only
\* with the stack empty, which the next call finds empty again.
C18_Terminates ==
    /\ (fault = NoFault /\ Acyclic) =>
          LET n == Cardinality(Closure(ManifestTables))
          IN  /\ lastRes.kind \notin {"overflow", "err"}
              /\ calls <= n =>
                    /\ Len(emitted) = calls
                    /\ calls > 0 => lastRes.kind = "item"
              /\ calls > n =>
                    /\ Len(emitted) = n
                    /\ lastRes.kind = "nil"
    /\ lastRes.kind = "nil" => Len(stack) = 0

\* three tables, one referencing another, were returned by three calls and
\* two more calls signalled end-of-sequence
C18_Witness ==
    /\ Acyclic
    /\ fault = NoFault
    /\ Len(emitted) = 3
    /\ calls = 5
    /\ lastRes.kind = "nil"
    /\ \E t \in Tables : DepsOf(t) # {}

\* kind and table of an output event, and the text of a post-load statement
Shape(ev) == <<ev.kind, ev.table, IF ev.kind = "SQL_CMD" THEN ev.text ELSE "">>

\* the events of one table: header, rows, terminator, then its post-load
\* statements in declared order, each as declared between "\n" and ";\n"
BlockShape(v) ==
    <<<<"BEGIN_TABLE", v.Table, "">>, <<"ROWS", v.Table, "">>, <<"END_TABLE", v.Table, "">>>>
        \o [i \in 1..Len(v.PostActions) |->
                <<"SQL_CMD", v.Table, "\n" \o v.PostActions[i] \o ";\n">>]

RECURSIVE BlocksOf(_)
BlocksOf(items) ==
    IF items = <<>> THEN <<>> ELSE BlockShape(Head(items)) \o BlocksOf(Tail(items))

\* the whole output of a run that returned the items so far, table after table
IdealOut == <<<<"BEGIN_DUMP", "", "">>>> \o BlocksOf(emitted) \o <<<<"END_DUMP", "", "">>>>

\* events written when the first k returned tables are complete
WrittenAfter(k) == 1 + Len(BlocksOf(SubSeq(emitted, 1, k)))

InBlock == pc \in {"cols", "beginTable", "dump", "endTable", "post"}

\* events MakeDump has had to write at its present position
Progress ==
    LET L == Len(emitted)
    IN  CASE pc = "beginDump" -> 0
          [] pc \in {"next", "endDump"} -> WrittenAfter(L)
          [] pc \in {"cols", "beginTable"} -> WrittenAfter(L - 1)
          [] pc = "dump" -> WrittenAfter(L - 1) + 1
          [] pc = "endTable" -> WrittenAfter(L - 1) + 2
          [] pc = "post" -> WrittenAfter(L - 1) + 3 + (postIdx - 1)
          [] pc = "returned" /\ ret = "ok" -> WrittenAfter(L) + 1
          [] pc = "returned" /\ failed = "next" -> WrittenAfter(L)
          [] pc = "returned" /\ failed = "cols" -> WrittenAfter(L - 1)
          [] pc = "returned" /\ failed \in {"render", "copy"} -> WrittenAfter(L - 1) + 1
          [] OTHER -> Len(IdealOut)

\* events the sink has accepted at most
SinkLimit == IF fault.op = "sink" /\ fault.at < Progress THEN fault.at ELSE Progress

\* C17: the output is, up to the write at which the sink fails, the events of
\* the returned tables one table after the other: header, rows, terminator,
\* the table's post-load statements in declared order and verbatim.  While a
\* table is written it is the last item Next returned and Next has been
\* called once per returned table; its columns are resolved after Next
\* returned it and before its header.
C17_Lockstep ==
    /\ [i \in 1..Len(out) |-> Shape(out[i])] = SubSeq(IdealOut, 1, SinkLimit)
    /\ InBlock =>
          /\ cur = emitted[Len(emitted)]
          /\ calls = Len(emitted)
          /\ lastRes.kind = "item"
    /\ pc = "cols" => cur.Table \notin Range(colsAsked)
    /\ pc \in {"beginTable", "dump", "endTable", "post"} =>
          /\ cols = HeaderCols(cur)
          /\ Count(colsAsked, cur.Table) = (IF cur.Columns = <<>> THEN 1 ELSE 0)
    /\ pc = "post" => postIdx \in 1..(Len(cur.PostActions) + 1)

\* MakeDump returned success on a sink that took every write, having written
\* a table with two post-load statements, one holding a template tag, and
\* then another table
C17_Witness ==
    /\ ret = "ok"
    /\ fault = NoFault
    /\ Len(emitted) = 2
    /\ Len(emitted[1].PostActions) = 2
    /\ \E i \in 1..Len(out) :
          /\ out[i].kind = "SQL_CMD"
          /\ out[i].text = "\nDELETE FROM " \o emitted[1].Table \o " WHERE NOT {{cond}};\n"
          /\ out[i + 1].kind = "BEGIN_TABLE"
          /\ out[i + 1].table = emitted[2].Table

\* C19: the rows streamed into a data block have the columns its header
\* names, same names and same order.
C19_HeaderMatchesRows ==
    \A i \in 1..Len(out) :
        out[i].kind = "ROWS" =>
            /\ i > 1
            /\ out[i - 1].kind = "BEGIN_TABLE"
            /\ out[i - 1].table = out[i].table
            /\ out[i - 1].cols = out[i].cols

====
